---- MODULE Spec2Model ----
(***************************************************************************)
(* Model of combinatorial_config: the value guards, the field guards, the  *)
(* range normalizer and the combinatorial-object guard.                    *)
(*                                                                         *)
(* The functions are pure.  A behaviour picks one Python value as the      *)
(* argument (Init) and then applies one of the functions to it; the        *)
(* outcome (value returned or exception raised) is recorded in `result`.   *)
(***************************************************************************)
EXTENDS Integers, Sequences, FiniteSets, TLC

VARIABLES
    arg,     \* the Python value handed to the function
    op,      \* name of the function applied last ("none" before any call)
    result,  \* outcome of that call
    prev,    \* outcome of the call before a chained second call
    _instance,         \* _UndefinedType._instance: 0 is None, else an object
    module_Undefined,  \* object bound to the module global Undefined (0: not yet)
    heap,              \* number of _UndefinedType objects created so far
    pc,                \* per thread: where it stands inside _UndefinedType()
    is_none,           \* per thread: outcome of its test `cls._instance is None`
    ret,               \* per thread: object its last request returned (0: none)
    calls,             \* per thread: number of requests completed
    returned           \* every object some request has returned

call_vars == <<arg, op, result, prev>>

sentinel_vars ==
    <<_instance, module_Undefined, heap, pc, is_none, ret, calls, returned>>

vars == <<call_vars, sentinel_vars>>

(***************************************************************************)
(* Bounds of the model.                                                    *)
(***************************************************************************)
MaxLen == 4      \* longest tuple / list enumerated
MaxFields == 3   \* most fields of a dict / dataclass instance enumerated
NumThreads == 2  \* threads besides the one that imports schemas.escapes
MaxCalls == 2    \* most requests _UndefinedType() a thread makes

(***************************************************************************)
(* Python values.  Every value is a record of one shape:                   *)
(*   cls   : __name__ of type(value)                                       *)
(*   n     : numeric payload (int value, bool as 0/1, float in tenths),    *)
(*           or the identity of an instance of a class without payload     *)
(*   s     : text payload (str contents, or the name of a class object)    *)
(*   items : elements of a tuple / list, or field values of a dict /       *)
(*           dataclass instance in key order                               *)
(***************************************************************************)
Val(c, k, t, xs) == [cls |-> c, n |-> k, s |-> t, items |-> xs]

PyInt(k) == Val("int", k, "", <<>>)
PyFloat(tenths) == Val("float", tenths, "", <<>>)
PyBool(b) == Val("bool", IF b THEN 1 ELSE 0, "", <<>>)
PyStr(t) == Val("str", 0, t, <<>>)
PyNone == Val("NoneType", 0, "", <<>>)
PyTuple(xs) == Val("tuple", 0, "", xs)
PyList(xs) == Val("list", 0, "", xs)
PyDict(xs) == Val("dict", 0, "", xs)

\* schemas/escapes.py: Undefined = _UndefinedType(), the module's instance.
Undefined == Val("_UndefinedType", 0, "", <<>>)

\* Another object whose type is named "_UndefinedType" and which is not the
\* object bound to Undefined (object.__new__(_UndefinedType), or an instance
\* of the class of a reloaded / foreign module).
OtherUndefinedTyped == Val("_UndefinedType", 1, "", <<>>)

\* Placeholder for "no value" (the call raised, or no call was made).
NoValue == Val("<no value>", 0, "", <<>>)

(***************************************************************************)
(* Python's class hierarchy as far as isinstance needs it: bool is a       *)
(* subclass of int.                                                        *)
(***************************************************************************)
Bases(c) == IF c = "bool" THEN {"bool", "int", "object"} ELSE {c, "object"}

IsInstance(v, classes) == Bases(v.cls) \cap classes # {}

TypeName(v) == v.cls

(***************************************************************************)
(* Outcomes of a call.                                                     *)
(***************************************************************************)
Return(v) == [status |-> "return", value |-> v, kind |-> "", args |-> <<>>]
Raise(k, a) == [status |-> "raise", value |-> NoValue, kind |-> k, args |-> a]
NoResult == [status |-> "none", value |-> NoValue, kind |-> "", args |-> <<>>]

(***************************************************************************)
(* schemas/escapes.py: the threads that may call _UndefinedType().  Thread *)
(* 0 is the one that imports the module and so executes its body           *)
(* (Undefined = _UndefinedType(), line 47); the others are 1..NumThreads.  *)
(* In the state after the import the one object created is stored in the   *)
(* class attribute and bound to Undefined, and no thread is inside         *)
(* __new__.                                                                *)
(***************************************************************************)
Importer == 0

Threads == 0..NumThreads

ModuleLoaded ==
    /\ _instance = 1
    /\ module_Undefined = 1
    /\ heap = 1
    /\ pc = [t \in Threads |-> "idle"]
    /\ is_none = [t \in Threads |-> FALSE]
    /\ ret = [t \in Threads |-> IF t = Importer THEN 1 ELSE 0]
    /\ calls = [t \in Threads |-> IF t = Importer THEN 1 ELSE 0]
    /\ returned = {1}

(***************************************************************************)
(* validators/values.py                                                    *)
(***************************************************************************)\* A number test by exact type, which leaves booleans out (faulty variant
\* of is_number_value).
is_number_value_exact_type(value) == value.cls \in {"int", "float"}


is_number_value(value) == IsInstance(value, {"int", "float"})

is_primitive_value(value) == IsInstance(value, {"int", "float", "str", "bool"})

\* A plausible slip: the sentinel recognised by the name of its type, not
\* by identity (faulty variant of is_enumerable_value).
is_enumerable_value_by_type_name(value) ==
    is_primitive_value(value) \/ TypeName(value) = "_UndefinedType"

is_enumerable_value(value) == is_primitive_value(value) \/ value = Undefined

(***************************************************************************)
(* schemas/escapes.py: what the class of the sentinel defines.             *)
(***************************************************************************)
\* bool(v).  _UndefinedType.__bool__ returns False (lines 43-44); the
\* built-in types are false when zero or empty.
Truth(v) ==
    CASE v.cls = "_UndefinedType" -> FALSE
      [] v.cls = "NoneType" -> FALSE
      [] v.cls \in {"int", "bool", "float"} -> v.n # 0
      [] v.cls = "str" -> v.s # ""
      [] v.cls \in {"tuple", "list", "dict"} -> v.items # <<>>
      [] OTHER -> TRUE

\* Undefined == other.  _UndefinedType defines no __eq__ and the built-in
\* types do not know it, so the comparison falls back to identity.
Undefined_eq(other) == other = Undefined

(***************************************************************************)
(* validators/escapes.py                                                   *)
(***************************************************************************)
\* A plausible slip: the sentinel recognised by its falsiness
\* (faulty variant of is_undefined).
is_undefined_falsy(value) == ~Truth(value)

is_undefined(value) == value = Undefined

(***************************************************************************)
(* validators/fields.py                                                    *)
(***************************************************************************)
\* A plausible slip: the length test alone, the elements left unchecked
\* (faulty variant of is_range_field).
is_range_field_unchecked(value) ==
    IsInstance(value, {"tuple"}) /\ Len(value.items) \in {1, 2, 3}

\* A plausible slip: any sequence type accepted, not tuples alone
\* (faulty variant of is_range_field).
is_range_field_any_sequence(value) ==
    IF ~IsInstance(value, {"tuple", "list"}) THEN FALSE
    ELSE IF Len(value.items) \notin {1, 2, 3} THEN FALSE
    ELSE \A i \in 1..Len(value.items) :
            IsInstance(value.items[i], {"int", "float"})

is_range_field(value) ==
    IF ~IsInstance(value, {"tuple"}) THEN FALSE
    ELSE IF Len(value.items) \notin {1, 2, 3} THEN FALSE
    ELSE \A i \in 1..Len(value.items) :
            IsInstance(value.items[i], {"int", "float"})

is_enum_field(value) ==
    IF ~IsInstance(value, {"tuple"}) THEN FALSE
    ELSE IF Len(value.items) = 0 THEN FALSE
    ELSE \A i \in 1..Len(value.items) :
            \/ IsInstance(value.items[i], {"int", "float", "str", "bool"})
            \/ TypeName(value.items[i]) = "_UndefinedType"

(***************************************************************************)
(* Python's repr() and str() of the values of the model, as the f-string   *)
(* of normalize_range_field formats them (format(value, "") is str(value)).*)
(***************************************************************************)
ReprFloat(tenths) ==
    IF tenths < 0
    THEN "-" \o ToString((-tenths) \div 10) \o "." \o ToString((-tenths) % 10)
    ELSE ToString(tenths \div 10) \o "." \o ToString(tenths % 10)

RECURSIVE Repr(_)
RECURSIVE JoinRepr(_, _)

\* ", ".join(repr(x) for x in xs[i:])
JoinRepr(xs, i) ==
    IF i > Len(xs) THEN ""
    ELSE IF i = Len(xs) THEN Repr(xs[i])
    ELSE Repr(xs[i]) \o ", " \o JoinRepr(xs, i + 1)

Repr(v) ==
    CASE v.cls = "int" -> ToString(v.n)
      [] v.cls = "bool" -> (IF v.n = 1 THEN "True" ELSE "False")
      [] v.cls = "float" -> ReprFloat(v.n)
      [] v.cls = "str" -> "'" \o v.s \o "'"
      [] v.cls = "NoneType" -> "None"
      [] v.cls = "_UndefinedType" -> "Undefined"
      [] v.cls = "tuple" ->
            IF Len(v.items) = 1 THEN "(" \o Repr(v.items[1]) \o ",)"
            ELSE "(" \o JoinRepr(v.items, 1) \o ")"
      [] v.cls = "list" -> "[" \o JoinRepr(v.items, 1) \o "]"
      [] v.cls = "dict" /\ v.items = <<>> -> "{}"
      [] OTHER -> "<" \o v.cls \o " object>"

Str(v) == IF v.cls = "str" THEN v.s ELSE Repr(v)

(***************************************************************************)
(* normalize_range_field.py                                                *)
(***************************************************************************)
raise_ValueError(value) ==
    Raise("ValueError", <<PyStr("Invalid range field: " \o Str(value))>>)

\* A plausible slip: the three-element branch tests the wrong length, so a
\* full (start, stop, step) triple falls through to the final raise
\* (faulty variant of normalize_range_field).
normalize_range_field_no_triple(value) ==
    IF ~is_range_field(value) THEN raise_ValueError(value)
    ELSE IF Len(value.items) = 1
    THEN Return(PyTuple(<<PyInt(0), value.items[1], PyInt(1)>>))
    ELSE IF Len(value.items) = 2
    THEN Return(PyTuple(<<value.items[1], value.items[2], PyInt(1)>>))
    ELSE raise_ValueError(value)

\* A plausible slip: the defaults filled in the wrong positions / with the
\* wrong default, and the triple rebuilt with step forced to the default
\* (faulty variant of normalize_range_field).
normalize_range_field_bad_fill(value) ==
    IF ~is_range_field(value) THEN raise_ValueError(value)
    ELSE IF Len(value.items) = 1
    THEN Return(PyTuple(<<value.items[1], PyInt(0), PyInt(1)>>))
    ELSE IF Len(value.items) = 2
    THEN Return(PyTuple(<<value.items[1], value.items[2], PyInt(0)>>))
    ELSE Return(PyTuple(<<value.items[1], value.items[2], PyInt(1)>>))

\* A plausible slip: the error raised is a dedicated error object holding
\* the rejected value (faulty variant of normalize_range_field).
normalize_range_field_typed_error(value) ==
    IF ~is_range_field(value) THEN Raise("InvalidRangeField", <<value>>)
    ELSE IF Len(value.items) = 1
    THEN Return(PyTuple(<<PyInt(0), value.items[1], PyInt(1)>>))
    ELSE IF Len(value.items) = 2
    THEN Return(PyTuple(<<value.items[1], value.items[2], PyInt(1)>>))
    ELSE Return(PyTuple(<<value.items[1], value.items[2], value.items[3]>>))
\* normalize_range_field with defaults that follow the type of the supplied
\* elements: 0.0 and 1.0 next to a float (faulty variant of
\* normalize_range_field).
normalize_range_field_float_defaults(value) ==
    IF ~is_range_field(value) THEN raise_ValueError(value)
    ELSE LET some_float == \E i \in 1..Len(value.items) : value.items[i].cls = "float"
             zero == IF some_float THEN PyFloat(0) ELSE PyInt(0)
             one == IF some_float THEN PyFloat(10) ELSE PyInt(1)
         IN  IF Len(value.items) = 1
             THEN Return(PyTuple(<<zero, value.items[1], one>>))
             ELSE IF Len(value.items) = 2
             THEN Return(PyTuple(<<value.items[1], value.items[2], one>>))
             ELSE Return(PyTuple(<<value.items[1], value.items[2], value.items[3]>>))


normalize_range_field(value) ==
    IF ~is_range_field(value) THEN raise_ValueError(value)
    ELSE IF Len(value.items) = 1
    THEN Return(PyTuple(<<PyInt(0), value.items[1], PyInt(1)>>))
    ELSE IF Len(value.items) = 2
    THEN Return(PyTuple(<<value.items[1], value.items[2], PyInt(1)>>))
    ELSE IF Len(value.items) = 3
    THEN Return(PyTuple(<<value.items[1], value.items[2], value.items[3]>>))
    ELSE raise_ValueError(value)

(***************************************************************************)
(* The arguments enumerated for the value guards, the field guards and     *)
(* the normalizer.                                                         *)
(***************************************************************************)
Elems ==
    { PyInt(-1), PyInt(1), PyFloat(5), PyBool(TRUE), PyStr("a"), PyNone,
      Undefined, OtherUndefinedTyped }

NumberElems == { PyInt(1), PyFloat(5) }

SeqsUpTo(S, k) == UNION { [1..m -> S] : m \in 0..k }

TupleInputs == { PyTuple(xs) : xs \in SeqsUpTo(Elems, MaxLen) }

ListInputs == { PyList(xs) : xs \in SeqsUpTo(NumberElems, 2) }

ScalarInputs == Elems \cup { PyInt(0), PyBool(FALSE), PyStr("[]") }

Inputs == TupleInputs \cup ListInputs \cup ScalarInputs \cup { PyDict(<<>>) }

(***************************************************************************)
(* Behaviours: pick an argument, apply a function to it.                   *)
(***************************************************************************)
Init ==
    /\ arg \in Inputs
    /\ op = "none"
    /\ result = NoResult
    /\ prev = NoResult
    /\ ModuleLoaded

Call_is_range_field ==
    /\ op = "none"
    /\ op' = "is_range_field"
    /\ result' = Return(PyBool(is_range_field(arg)))
    /\ UNCHANGED <<arg, prev, sentinel_vars>>
\* validators.py (the module next to the package validators/): its
\* is_range_field tests the type and the length, not the elements.
validators_is_range_field(value) ==
    IsInstance(value, {"tuple"})
        /\ (Len(value.items) = 1 \/ Len(value.items) = 2 \/ Len(value.items) = 3)

Call_validators_is_range_field ==
    /\ op = "none"
    /\ op' = "validators.is_range_field"
    /\ result' = Return(PyBool(validators_is_range_field(arg)))
    /\ UNCHANGED <<arg, prev, sentinel_vars>>


Call_is_enum_field ==
    /\ op = "none"
    /\ op' = "is_enum_field"
    /\ result' = Return(PyBool(is_enum_field(arg)))
    /\ UNCHANGED <<arg, prev, sentinel_vars>>

Call_normalize_range_field ==
    /\ op = "none"
    /\ op' = "normalize_range_field"
    /\ result' = normalize_range_field(arg)
    /\ UNCHANGED <<arg, prev, sentinel_vars>>

\* normalize_range_field applied to the triple a first call returned.
Call_normalize_range_field_again ==
    /\ op = "normalize_range_field"
    /\ result.status = "return"
    /\ op' = "normalize_range_field_again"
    /\ arg' = result.value
    /\ prev' = result
    /\ result' = normalize_range_field(result.value)
    /\ UNCHANGED sentinel_vars
Call_is_number_value ==
    /\ op = "none"
    /\ op' = "is_number_value"
    /\ result' = Return(PyBool(is_number_value(arg)))
    /\ UNCHANGED <<arg, prev, sentinel_vars>>


Call_is_undefined ==
    /\ op = "none"
    /\ op' = "is_undefined"
    /\ result' = Return(PyBool(is_undefined(arg)))
    /\ UNCHANGED <<arg, prev, sentinel_vars>>

Call_is_primitive_value ==
    /\ op = "none"
    /\ op' = "is_primitive_value"
    /\ result' = Return(PyBool(is_primitive_value(arg)))
    /\ UNCHANGED <<arg, prev, sentinel_vars>>

Call_is_enumerable_value ==
    /\ op = "none"
    /\ op' = "is_enumerable_value"
    /\ result' = Return(PyBool(is_enumerable_value(arg)))
    /\ UNCHANGED <<arg, prev, sentinel_vars>>

\* bool(arg)
Call_bool ==
    /\ op = "none"
    /\ op' = "bool"
    /\ result' = Return(PyBool(Truth(arg)))
    /\ UNCHANGED <<arg, prev, sentinel_vars>>

\* Undefined == arg
Call_eq_Undefined ==
    /\ op = "none"
    /\ op' = "eq_Undefined"
    /\ result' = Return(PyBool(Undefined_eq(arg)))
    /\ UNCHANGED <<arg, prev, sentinel_vars>>

Next ==
    \/ Call_is_range_field
    \/ Call_validators_is_range_field
    \/ Call_is_enum_field
    \/ Call_normalize_range_field
    \/ Call_normalize_range_field_again
    \/ Call_is_number_value
    \/ Call_is_undefined
    \/ Call_is_primitive_value
    \/ Call_is_enumerable_value
    \/ Call_bool
    \/ Call_eq_Undefined

Spec == Init /\ [][Next]_vars

(***************************************************************************)
(* Properties of the range normalizer and of the field guards.             *)
(***************************************************************************)
Normalized == op = "normalize_range_field"

IsTupleOfLen(v, k) == v.cls = "tuple" /\ Len(v.items) = k

AllNumbers(v) == \A i \in 1..Len(v.items) : is_number_value(v.items[i])

\* C1: for every numeric x, normalize_range_field((x,)) returns exactly
\* (0, x, 1): the sole element is stop, start is 0 and step is 1.
C1_SingleValue ==
    (Normalized /\ IsTupleOfLen(arg, 1) /\ AllNumbers(arg))
        => result = Return(PyTuple(<<PyInt(0), arg.items[1], PyInt(1)>>))

C1_Witness ==
    /\ Normalized
    /\ arg = PyTuple(<<PyFloat(5)>>)
    /\ result.status = "return"

\* C2: for every numeric a and b, normalize_range_field((a, b)) returns
\* exactly (a, b, 1): start and stop in that order, step filled with 1.
C2_TwoValues ==
    (Normalized /\ IsTupleOfLen(arg, 2) /\ AllNumbers(arg))
        => result = Return(PyTuple(<<arg.items[1], arg.items[2], PyInt(1)>>))

C2_Witness ==
    /\ Normalized
    /\ arg = PyTuple(<<PyInt(-1), PyFloat(5)>>)
    /\ result.status = "return"

\* C3: for every numeric a, b and c, normalize_range_field((a, b, c))
\* returns (a, b, c): the identity on a 3-element range field.
C3_ThreeValues ==
    (Normalized /\ IsTupleOfLen(arg, 3) /\ AllNumbers(arg))
        => result = Return(arg)

C3_Witness ==
    /\ Normalized
    /\ arg = PyTuple(<<PyInt(-1), PyInt(1), PyFloat(5)>>)
    /\ result.status = "return"

\* The invalid shapes the contract lists: a non-tuple, a tuple of length 0
\* or of length 4 or more, a tuple with a non-numeric element.
InvalidShape(v) ==
    \/ v.cls # "tuple"
    \/ Len(v.items) = 0
    \/ Len(v.items) >= 4
    \/ \E i \in 1..Len(v.items) : ~is_number_value(v.items[i])

\* C4: normalize_range_field raises exactly on the inputs is_range_field
\* rejects (the invalid shapes), returns a triple on every input it
\* accepts, and a failing call returns no value.
C4_FailsExactlyOnInvalid ==
    Normalized =>
        /\ result.status \in {"return", "raise"}
        /\ (result.status = "raise") <=> ~is_range_field(arg)
        /\ (result.status = "raise") <=> InvalidShape(arg)
        /\ result.status = "raise" => result.value = NoValue
        /\ result.status = "return" =>
              /\ IsTupleOfLen(result.value, 3)
              /\ result.kind = "" /\ result.args = <<>>

C4_Witness ==
    /\ Normalized
    /\ arg = PyTuple(<<PyInt(1), PyStr("a")>>)
    /\ result.status = "raise"
    /\ result.value = NoValue

\* C5 as claimed: the error raised on a rejected input is of the dedicated
\* kind InvalidRangeField and carries the rejected value itself.
C5_DedicatedErrorCarriesValue ==
    (Normalized /\ result.status = "raise")
        => /\ result.kind = "InvalidRangeField"
           /\ \E i \in 1..Len(result.args) : result.args[i] = arg

\* C5 as amended: the error raised on a rejected input is a ValueError
\* whose only argument is the text "Invalid range field: " followed by
\* str() of the rejected value; the value itself is not carried.
C5_ValueErrorWithMessage ==
    (Normalized /\ result.status = "raise")
        => /\ result.kind = "ValueError"
           /\ result.args = <<PyStr("Invalid range field: " \o Str(arg))>>
           /\ result.args[1] # arg

C5_Witness ==
    /\ Normalized
    /\ arg = PyTuple(<<PyStr("a")>>)
    /\ result.status = "raise"
    /\ result.args = <<PyStr("Invalid range field: ('a',)")>>

\* C6: normalize_range_field is idempotent: applied to the triple it
\* returned for a valid range field, it returns that same triple.
C6_Idempotent ==
    op = "normalize_range_field_again" => result = prev

C6_Witness ==
    /\ op = "normalize_range_field_again"
    /\ prev = Return(PyTuple(<<PyInt(0), PyFloat(5), PyInt(1)>>))
    /\ result.status = "return"

\* C7: is_range_field(v) is true iff v is a tuple of length 1, 2 or 3 whose
\* every element satisfies is_number; it returns false, without raising,
\* for everything else (lists of numbers, tuples of length 0 or 4).
C7_IsRangeField ==
    op = "is_range_field" =>
        result = Return(PyBool(/\ arg.cls = "tuple"
                               /\ Len(arg.items) \in {1, 2, 3}
                               /\ AllNumbers(arg)))

C7_Witness ==
    /\ op = "is_range_field"
    /\ arg = PyList(<<PyInt(1), PyFloat(5)>>)
    /\ result = Return(PyBool(FALSE))

\* C8: is_enum_field(v) is true iff v is a non-empty tuple whose every
\* element satisfies is_enumerable_value (a primitive, or the Undefined
\* instance itself).
C8_EnumFieldIffEnumerable ==
    op = "is_enum_field" =>
        result = Return(PyBool(/\ arg.cls = "tuple"
                               /\ Len(arg.items) > 0
                               /\ \A i \in 1..Len(arg.items) :
                                     is_enumerable_value(arg.items[i])))

(***************************************************************************)
(* validators/is_combinatorial_object.py                                   *)
(*                                                                         *)
(* Objects: a dict is PyDict(values), its keys being the positions of      *)
(* `items`; an instance of a class decorated with @dataclass has cls       *)
(* "Config", its declared fields being the positions of `items`; a class   *)
(* object itself has cls "type" and carries the class name in `s`.         *)
(***************************************************************************)
DataclassNames == {"Config"}

\* The attribute a declared field of a dataclass instance lacks (a field
\* with init=False and no default, or an attribute deleted after
\* construction): getattr finds nothing.
Missing == Val("<missing attribute>", 0, "", <<>>)

DataclassInstance(xs) == Val("Config", 0, "", xs)
DataclassType == Val("type", 0, "Config", <<>>)
RegularClassInstance == Val("RegularClass", 0, "", <<>>)
RegularClassType == Val("type", 0, "RegularClass", <<>>)

\* dataclasses.is_dataclass(obj): the class of obj (obj itself when it is
\* a class) has __dataclass_fields__.
is_dataclass(obj) ==
    LET c == IF IsInstance(obj, {"type"}) THEN obj.s ELSE obj.cls
    IN  c \in DataclassNames

\* isinstance(value, collections.abc.Iterable): the class defines __iter__.
IsIterable(value) ==
    value.cls \in {"list", "tuple", "set", "range", "generator", "bytes",
                   "dict", "str"}

\* Lines 163-168: obj is a dict, or a dataclass instance (not a class).
\* A plausible slip: the test that obj is not a class left out
\* (faulty variant of shape_check).
shape_check_no_type_test(obj) ==
    IsInstance(obj, {"dict"}) \/ is_dataclass(obj)

shape_check(obj) ==
    IF IsInstance(obj, {"dict"}) THEN TRUE
    ELSE IF is_dataclass(obj) /\ ~IsInstance(obj, {"type"}) THEN TRUE
    ELSE FALSE

RECURSIVE check_fields_no_str_test(_, _)

\* A plausible slip: the string test left out, strings being iterable
\* (faulty variant of check_fields).
check_fields_no_str_test(obj, i) ==
    IF i > Len(obj.items) THEN Return(PyBool(TRUE))
    ELSE IF obj.items[i] = Missing
    THEN Raise("AttributeError", <<PyStr("object has no such attribute")>>)
    ELSE IF ~IsIterable(obj.items[i]) THEN Return(PyBool(FALSE))
    ELSE check_fields_no_str_test(obj, i + 1)

RECURSIVE check_fields(_, _)

\* Lines 172-182: the loop over the keys, from key number i on.
check_fields(obj, i) ==
    IF i > Len(obj.items) THEN Return(PyBool(TRUE))
    ELSE IF obj.items[i] = Missing
    THEN Raise("AttributeError", <<PyStr("object has no such attribute")>>)
    ELSE IF IsInstance(obj.items[i], {"str"}) THEN Return(PyBool(FALSE))
    ELSE IF ~IsIterable(obj.items[i]) THEN Return(PyBool(FALSE))
    ELSE check_fields(obj, i + 1)
\* A probe of iterability that draws an element: next(iter(value)) takes
\* one element from a generator (faulty variant of
\* value_after_isinstance_tests).
value_after_next_probe(value) ==
    IF value.cls = "generator" THEN [value EXCEPT !.n = @ + 1] ELSE value

\* Lines 177-180: what the two isinstance tests leave of a field value.
\* They look at the class of the value only (str, and the __iter__ the
\* class defines): nothing is iterated, so a generator, whose `n` counts
\* the elements drawn from it, keeps its count.
value_after_isinstance_tests(value) == value

\* The loop of lines 172-182 reaches field i when every field before it
\* passed both tests.
field_reached(obj, i) ==
    \A j \in 1..(i - 1) :
        /\ obj.items[j] # Missing
        /\ ~IsInstance(obj.items[j], {"str"})
        /\ IsIterable(obj.items[j])

\* Lines 163-182: the object after the call.  Nothing is assigned to obj,
\* to a key or to an attribute; the fields the loop reaches go through the
\* isinstance tests.
obj_after_is_combinatorial_object(obj) ==
    IF ~shape_check(obj) THEN obj
    ELSE [obj EXCEPT !.items =
            [i \in 1..Len(obj.items) |->
                IF field_reached(obj, i) /\ obj.items[i] # Missing
                THEN value_after_isinstance_tests(obj.items[i])
                ELSE obj.items[i]]]


\* A plausible slip: an object without fields answered False instead of
\* vacuously True (faulty variant of is_combinatorial_object).
is_combinatorial_object_rejects_empty(obj) ==
    IF ~shape_check(obj) THEN Return(PyBool(FALSE))
    ELSE IF Len(obj.items) = 0 THEN Return(PyBool(FALSE))
    ELSE check_fields(obj, 1)

is_combinatorial_object(obj) ==
    IF ~shape_check(obj) THEN Return(PyBool(FALSE))
    ELSE check_fields(obj, 1)

(***************************************************************************)
(* The arguments enumerated for the combinatorial-object guard.            *)
(***************************************************************************)
FieldValues ==
    { PyList(<<PyInt(1), PyInt(2)>>), PyTuple(<<>>), Val("set", 0, "", <<>>),
      Val("range", 0, "", <<>>), Val("generator", 0, "", <<>>),
      Val("bytes", 0, "", <<>>), PyDict(<<>>),
      PyStr("a"), PyInt(1), PyFloat(5), PyBool(TRUE), PyNone }

DictInputs == { PyDict(xs) : xs \in SeqsUpTo(FieldValues, MaxFields) }

DataclassInputs ==
    { DataclassInstance(xs) :
        xs \in SeqsUpTo(FieldValues \cup {Missing}, MaxFields) }

OtherObjectInputs ==
    FieldValues \cup
    { DataclassType, RegularClassInstance, RegularClassType,
      PyList(<<PyInt(1), PyInt(2), PyInt(3)>>),
      PyTuple(<<PyInt(1), PyInt(2), PyInt(3)>>),
      PyStr("config"), PyInt(42), Undefined }

ObjectInputs == DictInputs \cup DataclassInputs \cup OtherObjectInputs

InitObject ==
    /\ arg \in ObjectInputs
    /\ op = "none"
    /\ result = NoResult
    /\ prev = NoResult
    /\ ModuleLoaded

Call_is_combinatorial_object ==
    /\ op = "none"
    /\ op' = "is_combinatorial_object"
    /\ result' = is_combinatorial_object(arg)
    /\ arg' = obj_after_is_combinatorial_object(arg)
    /\ UNCHANGED <<prev, sentinel_vars>>

\* A second call on the object the first call was given.
Call_is_combinatorial_object_again ==
    /\ op = "is_combinatorial_object"
    /\ op' = "is_combinatorial_object_again"
    /\ prev' = result
    /\ result' = is_combinatorial_object(arg)
    /\ arg' = obj_after_is_combinatorial_object(arg)
    /\ UNCHANGED sentinel_vars

NextObject ==
    \/ Call_is_combinatorial_object
    \/ Call_is_combinatorial_object_again

SpecObject == InitObject /\ [][NextObject]_vars

(***************************************************************************)
(* Properties of the combinatorial-object guard.                           *)
(***************************************************************************)
Guarded == op = "is_combinatorial_object"

\* obj is a dict or an instance of a dataclass.
IsDictOrDataclassInstance(v) == v.cls \in {"dict", "Config"}

\* The field values the contract accepts, and those it rejects.
AcceptedKinds ==
    {"list", "tuple", "set", "range", "generator", "bytes", "dict"}

RejectedKinds == {"str", "int", "float", "bool", "NoneType"}

AllFieldsHoldValues(v) == \A i \in 1..Len(v.items) : v.items[i] # Missing

C11_ZeroFields ==
    (Guarded /\ IsDictOrDataclassInstance(arg) /\ Len(arg.items) = 0)
        => result = Return(PyBool(TRUE))

C11_Witness ==
    /\ Guarded
    /\ arg = DataclassInstance(<<>>)
    /\ result = Return(PyBool(TRUE))

\* C12: is_combinatorial_object never raises and always returns a boolean,
\* for every argument, a dataclass instance on which a declared field has
\* no attribute value included.
C12_NeverRaises ==
    Guarded =>
        /\ result.status = "return"
        /\ result.value \in {PyBool(TRUE), PyBool(FALSE)}

(***************************************************************************)
(* schemas/escapes.py: _UndefinedType.__new__ step by step, so that the    *)
(* threads interleave between the test of line 36, the assignment of line  *)
(* 37 and the read of line 38.                                             *)
(***************************************************************************)
\* A plausible slip: the test left out, every request creating an object
\* (faulty variant of instance_is_None).
instance_is_None_always(inst) == TRUE

\* Line 36: cls._instance is None.
instance_is_None(inst) == inst = 0

\* A plausible slip: the instance not created while the module is loaded
\* but lazily, so that any thread may make the first request
\* (faulty variant of CanRequest).
CanRequest_before_load(t) == TRUE

\* A thread reaches the class through the imported module only, and the
\* import returns after the module body (line 47 included) has run; the
\* importing thread itself makes its first request at line 47.
CanRequest(t) == module_Undefined # 0

\* The import starts: the class is defined (_instance = None, line 33) and
\* the importing thread enters _UndefinedType() at line 47.
InitSentinel ==
    /\ arg = NoValue
    /\ op = "none"
    /\ result = NoResult
    /\ prev = NoResult
    /\ _instance = 0
    /\ module_Undefined = 0
    /\ heap = 0
    /\ pc = [t \in Threads |-> IF t = Importer THEN "check" ELSE "idle"]
    /\ is_none = [t \in Threads |-> FALSE]
    /\ ret = [t \in Threads |-> 0]
    /\ calls = [t \in Threads |-> 0]
    /\ returned = {}

\* A thread calls _UndefinedType().
Request(t) ==
    /\ pc[t] = "idle"
    /\ calls[t] < MaxCalls
    /\ CanRequest(t)
    /\ pc' = [pc EXCEPT ![t] = "check"]
    /\ UNCHANGED <<call_vars, _instance, module_Undefined, heap, is_none,
                   ret, calls, returned>>

\* Line 36: if cls._instance is None.
New_check(t) ==
    /\ pc[t] = "check"
    /\ is_none' = [is_none EXCEPT ![t] = instance_is_None(_instance)]
    /\ pc' = [pc EXCEPT ![t] = "assign"]
    /\ UNCHANGED <<call_vars, _instance, module_Undefined, heap, ret, calls,
                   returned>>

\* Line 37, when the test was true: cls._instance = super().__new__(cls);
\* otherwise the branch is skipped.
New_assign(t) ==
    /\ pc[t] = "assign"
    /\ IF is_none[t]
       THEN /\ heap' = heap + 1
            /\ _instance' = heap + 1
       ELSE UNCHANGED <<heap, _instance>>
    /\ pc' = [pc EXCEPT ![t] = "return"]
    /\ UNCHANGED <<call_vars, module_Undefined, is_none, ret, calls, returned>>

\* Line 38: return cls._instance.
New_return(t) ==
    /\ pc[t] = "return"
    /\ ret' = [ret EXCEPT ![t] = _instance]
    /\ returned' = returned \cup {_instance}
    /\ calls' = [calls EXCEPT ![t] = calls[t] + 1]
    /\ pc' = [pc EXCEPT ![t] =
                IF t = Importer /\ module_Undefined = 0 THEN "bind" ELSE "idle"]
    /\ UNCHANGED <<call_vars, _instance, module_Undefined, heap, is_none>>

\* Line 47: Undefined = <the object the call returned>.
Bind_Undefined ==
    /\ pc[Importer] = "bind"
    /\ module_Undefined' = ret[Importer]
    /\ pc' = [pc EXCEPT ![Importer] = "idle"]
    /\ UNCHANGED <<call_vars, _instance, heap, is_none, ret, calls, returned>>

NextSentinel ==
    \/ \E t \in Threads : Request(t)
    \/ \E t \in Threads : New_check(t)
    \/ \E t \in Threads : New_assign(t)
    \/ \E t \in Threads : New_return(t)
    \/ Bind_Undefined

SpecSentinel == InitSentinel /\ [][NextSentinel]_vars

(***************************************************************************)
(* Properties of the sentinel.                                             *)
(***************************************************************************)
\* C13: the sentinel is a singleton: after any sequence of requests
\* _UndefinedType(), every request has returned the very same object, and
\* that object is the one bound to Undefined.
C13_Singleton ==
    /\ Cardinality(returned) <= 1
    /\ 0 \notin returned
    /\ module_Undefined # 0 => returned = {module_Undefined}

C13_Witness ==
    /\ calls[Importer] >= 2
    /\ \A t \in Threads : calls[t] >= 1
    /\ returned = {module_Undefined}

\* C14: construction is race-free: under any interleaving of the threads'
\* requests no two requests obtain distinct objects, and no thread other
\* than the importing one ever finds _instance to be None, so no two
\* threads each create an object.
C14_RaceFree ==
    /\ \A t1, t2 \in Threads :
          (ret[t1] # 0 /\ ret[t2] # 0) => ret[t1] = ret[t2]
    /\ heap <= 1
    /\ \A t \in Threads \ {Importer} : ~is_none[t]

C14_Witness ==
    /\ pc[1] = "assign"
    /\ pc[2] = "assign"
    /\ calls[1] = 0 /\ calls[2] = 0

\* C15: the sentinel converts to boolean false, yet it is not equal to
\* None, 0 or False; is_undefined(v) is true only when v is the Undefined
\* instance itself (false for None, 0 and False), and
\* is_primitive_value(Undefined) is false.
C15_SentinelDistinct ==
    /\ (op = "bool" /\ arg = Undefined) => result = Return(PyBool(FALSE))
    /\ (op = "eq_Undefined" /\ arg \in {PyNone, PyInt(0), PyBool(FALSE)})
          => result = Return(PyBool(FALSE))
    /\ op = "is_undefined" => result = Return(PyBool(arg = Undefined))
    /\ (op = "is_primitive_value" /\ arg = Undefined)
          => result = Return(PyBool(FALSE))

C15_Witness ==
    /\ op = "is_undefined"
    /\ arg = PyBool(FALSE)
    /\ result = Return(PyBool(FALSE))

\* C16: is_enumerable_value(v) is true iff is_primitive_value(v) holds or v
\* is the Undefined sentinel; it returns false for None, for lists and for
\* every other value, and never raises.
C16_IsEnumerable ==
    op = "is_enumerable_value" =>
        /\ result = Return(PyBool(\/ arg.cls \in {"int", "float", "str", "bool"}
                                  \/ arg = Undefined))
        /\ result = Return(PyBool(is_primitive_value(arg) \/ arg = Undefined))
        /\ (arg = PyNone \/ arg.cls = "list") => result = Return(PyBool(FALSE))

C16_Witness ==
    /\ op = "is_enumerable_value"
    /\ arg = Undefined
    /\ result = Return(PyBool(TRUE))

(***************************************************************************)
(* normalizers/range.py: range_field_to_list.  The file is not part of     *)
(* the sources at hand (normalizers/__init__.py imports it and             *)
(* normalizers/test_range.py exercises it), so the expander follows the    *)
(* specification, section 4.5: normalize, then produce start, start+step,  *)
(* ... while the value lies strictly before stop.  Numbers are handled in  *)
(* tenths, exactly.                                                        *)
(***************************************************************************)
\* The value of a number, in tenths.
NumTenths(v) == IF v.cls = "float" THEN v.n ELSE 10 * v.n

\* The number of the given value: a float when start or step is one.
MkNumber(tenths, as_float) ==
    IF as_float THEN PyFloat(tenths) ELSE PyInt(tenths \div 10)

RECURSIVE values_before(_, _, _, _)

\* x, x+step, x+2*step, ... as long as the value lies before stop in the
\* direction of step.
values_before(x, stop, step, as_float) ==
    IF (step > 0 /\ x < stop) \/ (step < 0 /\ x > stop)
    THEN <<MkNumber(x, as_float)>> \o values_before(x + step, stop, step, as_float)
    ELSE <<>>

\* Section 4.5 leaves the outcome for a step of zero with a nonzero span to
\* the implementer: the empty sequence, or the failure of the normalizer.
ZeroStepPolicies == {"empty", "raise"}

range_field_to_list(value, zero_step) ==
    LET r == normalize_range_field(value)
    IN  IF r.status # "return" THEN r
        ELSE LET start == r.value.items[1]
                 stop == r.value.items[2]
                 step == r.value.items[3]
                 as_float == start.cls = "float" \/ step.cls = "float"
             IN  IF NumTenths(step) = 0
                 THEN IF zero_step = "raise" /\ NumTenths(start) # NumTenths(stop)
                      THEN raise_ValueError(value)
                      ELSE Return(PyList(<<>>))
                 ELSE Return(PyList(values_before(NumTenths(start),
                                                  NumTenths(stop),
                                                  NumTenths(step), as_float)))

(***************************************************************************)
(* The arguments enumerated for the expander.                              *)
(***************************************************************************)
RangeNumbers ==
    { PyInt(-1), PyInt(0), PyInt(1), PyInt(2), PyInt(5),
      PyFloat(0), PyFloat(3), PyFloat(10), PyBool(TRUE) }

ValidRangeInputs ==
    { PyTuple(xs) : xs \in SeqsUpTo(RangeNumbers, 3) \ {<<>>} }
    \cup { PyTuple(<<PyInt(1), PyInt(10), PyInt(2)>>),
           PyTuple(<<PyInt(2), PyInt(8)>>) }

InvalidRangeInputs ==
    { PyTuple(<<>>), PyTuple(<<PyStr("a")>>), PyTuple(<<PyInt(1), PyStr("b")>>),
      PyTuple(<<PyInt(1), PyNone, PyInt(2)>>), PyTuple(<<Undefined>>),
      PyList(<<>>), PyList(<<PyInt(1), PyInt(5)>>), PyInt(5), PyStr("5"),
      PyNone, PyDict(<<>>) }
    \cup { PyTuple(xs) : xs \in UNION { [1..m -> {PyInt(1), PyFloat(3)}] :
                                          m \in 4..MaxLen } }

ExpandInputs == ValidRangeInputs \cup InvalidRangeInputs

InitExpand ==
    /\ arg \in ExpandInputs
    /\ op = "none"
    /\ result = NoResult
    /\ prev = NoResult
    /\ ModuleLoaded

Call_range_field_to_list ==
    /\ op = "none"
    /\ op' = "range_field_to_list"
    /\ \E zero_step \in ZeroStepPolicies :
          result' = range_field_to_list(arg, zero_step)
    /\ UNCHANGED <<arg, prev, sentinel_vars>>

NextExpand == Call_range_field_to_list

SpecExpand == InitExpand /\ [][NextExpand]_vars

(***************************************************************************)
(* Properties of the expander.                                             *)
(***************************************************************************)
Expanded == op = "range_field_to_list"

\* start, stop and step a valid range field denotes, in tenths.
StartOf(v) == IF Len(v.items) = 1 THEN 0 ELSE NumTenths(v.items[1])

StopOf(v) ==
    IF Len(v.items) = 1 THEN NumTenths(v.items[1]) ELSE NumTenths(v.items[2])

StepOf(v) == IF Len(v.items) = 3 THEN NumTenths(v.items[3]) ELSE 10

ValidField(v) ==
    v.cls = "tuple" /\ Len(v.items) \in {1, 2, 3} /\ AllNumbers(v)

IntegerField(v) ==
    ValidField(v) /\ \A i \in 1..Len(v.items) : v.items[i].cls \in {"int", "bool"}

\* C17: for every valid integer range field with step > 0 the list is
\* start, start+step, start+2*step, ... : all such values strictly less
\* than stop, in order, and no other; stop itself is never an element.
C17_HalfOpenIntegerRange ==
    (Expanded /\ IntegerField(arg) /\ StepOf(arg) > 0) =>
        /\ result.status = "return"
        /\ result.value.cls = "list"
        /\ LET xs == result.value.items
           IN  /\ \A i \in 1..Len(xs) :
                     /\ xs[i].cls = "int"
                     /\ NumTenths(xs[i]) = StartOf(arg) + (i - 1) * StepOf(arg)
                     /\ NumTenths(xs[i]) < StopOf(arg)
               /\ StartOf(arg) + Len(xs) * StepOf(arg) >= StopOf(arg)

C17_Witness ==
    /\ Expanded
    /\ arg = PyTuple(<<PyInt(1), PyInt(10), PyInt(2)>>)
    /\ result = Return(PyList(<<PyInt(1), PyInt(3), PyInt(5), PyInt(7), PyInt(9)>>))

PositionOf(v, i) == IF Len(v.items) = 1 THEN 2 ELSE i

\* C21: normalize_range_field copies each input element into the output
\* unchanged in value and in numeric type (an int stays an int, a float a
\* float, a bool a bool), introduces only the integer defaults 0 (start) and
\* 1 (step), also next to float elements, and leaves its argument as it was.
C21_ElementsAndTypesPreserved ==
    /\ [](  (Normalized /\ result.status = "return") =>
               LET k == Len(arg.items)
                   out == result.value.items
               IN  /\ Len(out) = 3
                   /\ \A i \in 1..k :
                         /\ out[PositionOf(arg, i)].cls = arg.items[i].cls
                         /\ out[PositionOf(arg, i)].n = arg.items[i].n
                   /\ k = 1 => (out[1].cls = "int" /\ out[1].n = 0)
                   /\ k <= 2 => (out[3].cls = "int" /\ out[3].n = 1) )
    /\ [][op' = "normalize_range_field" => arg' = arg]_vars

C21_Witness ==
    /\ Normalized
    /\ arg = PyTuple(<<PyFloat(5), PyFloat(5)>>)
    /\ result = Return(PyTuple(<<PyFloat(5), PyFloat(5), PyInt(1)>>))

\* C22: every value normalize_range_field returns is a tuple of exactly 3
\* numbers that is_range_field accepts, so the normalizer accepts its own
\* output: a call on a returned triple returns as well.
C22_OutputIsRangeField ==
    /\ (Normalized /\ result.status = "return") =>
          /\ result.value.cls = "tuple"
          /\ Len(result.value.items) = 3
          /\ \A i \in 1..3 : result.value.items[i].cls \in {"int", "float", "bool"}
          /\ is_range_field(result.value)
    /\ op = "normalize_range_field_again" =>
          /\ is_range_field(arg)
          /\ result.status = "return"

C22_Witness ==
    /\ op = "normalize_range_field_again"
    /\ arg = PyTuple(<<PyInt(0), PyBool(TRUE), PyInt(1)>>)
    /\ result.status = "return"

\* C23: the is_range_field of the module validators.py and the one of the
\* package validators/fields.py return the same boolean on every input, and
\* both reject a tuple of length 1 to 3 with a non-numeric element.
C23_SameGuard ==
    /\ op = "validators.is_range_field" =>
          /\ result = Return(PyBool(is_range_field(arg)))
          /\ (IsTupleOfLen(arg, 1) \/ IsTupleOfLen(arg, 2) \/ IsTupleOfLen(arg, 3))
                /\ ~AllNumbers(arg) => result = Return(PyBool(FALSE))
    /\ op = "is_range_field" =>
          result = Return(PyBool(validators_is_range_field(arg)))

\* A tuple of 1 to 3 ints, floats and booleans, at least one a boolean.
NumbersWithBoolean(v) ==
    /\ v.cls = "tuple"
    /\ Len(v.items) \in {1, 2, 3}
    /\ \A i \in 1..Len(v.items) : v.items[i].cls \in {"int", "float", "bool"}
    /\ \E i \in 1..Len(v.items) : v.items[i].cls = "bool"

\* C24: booleans count as numbers: is_number_value(b) is true for a boolean
\* b, is_range_field accepts a tuple of 1 to 3 numbers some of which are
\* booleans, and normalize_range_field returns such a tuple's elements
\* unchanged, as booleans, instead of raising: (True,) gives (0, True, 1).
C24_BooleansAreNumbers ==
    /\ (op = "is_number_value" /\ arg.cls = "bool")
          => result = Return(PyBool(TRUE))
    /\ (op = "is_range_field" /\ NumbersWithBoolean(arg))
          => result = Return(PyBool(TRUE))
    /\ (Normalized /\ NumbersWithBoolean(arg)) =>
          /\ result.status = "return"
          /\ \A i \in 1..Len(arg.items) :
                result.value.items[PositionOf(arg, i)] = arg.items[i]
    /\ (Normalized /\ arg = PyTuple(<<PyBool(TRUE)>>))
          => result = Return(PyTuple(<<PyInt(0), PyBool(TRUE), PyInt(1)>>))

C24_Witness ==
    /\ Normalized
    /\ arg = PyTuple(<<PyBool(TRUE)>>)
    /\ result = Return(PyTuple(<<PyInt(0), PyBool(TRUE), PyInt(1)>>))

\* C25: is_combinatorial_object leaves its argument and every field value
\* as they were: no field is added, removed or rebound, no field value is
\* traversed, so that no element of a generator held in a field has been
\* drawn after the call, and a second call on the same object has the
\* result of the first.
C25_ArgumentUntouched ==
    /\ [][arg' = arg]_vars
    /\ [](\A i \in 1..Len(arg.items) :
             arg.items[i].cls = "generator" => arg.items[i].n = 0)
    /\ [](op = "is_combinatorial_object_again" => result = prev)

C25_Witness ==
    /\ op = "is_combinatorial_object_again"
    /\ arg = PyDict(<<Val("generator", 0, "", <<>>)>>)
    /\ prev = Return(PyBool(TRUE))
    /\ result = Return(PyBool(TRUE))

\* C26: once the module is loaded (Undefined is bound), the class attribute
\* _instance is never None and is never assigned again: every later
\* request finds the test of line 36 false, returns the stored instance and
\* creates no object.
C26_InstanceStable ==
    /\ [](module_Undefined # 0 =>
             /\ _instance # 0
             /\ _instance = module_Undefined
             /\ \A t \in Threads : pc[t] \in {"assign", "return"} =>
                   (is_none[t] => t = Importer /\ calls[t] = 0))
    /\ [][module_Undefined # 0 => (_instance' = _instance /\ heap' = heap)]_vars
    /\ [][\A t \in Threads :
            (module_Undefined # 0 /\ pc[t] = "return" /\ pc'[t] = "idle")
                => ret'[t] = module_Undefined]_vars

C26_Witness ==
    /\ module_Undefined # 0
    /\ pc[1] = "return"
    /\ calls[1] = 1
    /\ ~is_none[1]
    /\ _instance = module_Undefined
    /\ heap = 1

====
